---------------------------- MODULE Spec2Model ----------------------------
(***************************************************************************)
(* A model of the two training scripts of the repository:                  *)
(*   PyTorchImplementations/atari_deepQLearning/train.py  (DQN)            *)
(*   PyTorchImplementations/cartPole_PG.py                (policy gradient)*)
(*                                                                         *)
(* Specifications:                                                         *)
(*   SpecBuf   - the ExperienceBuffer class driven by arbitrary append and *)
(*               sample calls, for every capacity in 1..MaxCap.            *)
(*   SpecAgent - an Agent over a buffer of capacity REPLAY_SIZE, driven by *)
(*               play_step calls with any epsilon of Epsilons.             *)
(*   SpecLoss  - calc_loss applied to every batch of LossInputs.           *)
(*   Spec      - the training loop of train.py, up to MaxFrames frames.    *)
(*   SpecEps   - the epsilon schedule of the loop in binary64 arithmetic,  *)
(*               with the script's constants, over two ranges of frames.   *)
(*   SpecPG    - the training loop of cartPole_PG.py, up to MaxPGSteps     *)
(*               experiences.                                              *)
(*                                                                         *)
(* The environment, the networks and the optimizer are external: what      *)
(* they return is drawn from small sets.  Floating point values are        *)
(* modelled by integers (rewards, Q-values) or by exact rationals with a   *)
(* named denominator; SpecEps alone evaluates its floats digit by digit.   *)
(* The script's large tuning constants are scaled down, keeping the        *)
(* relations between them (see each definition).                           *)
(***************************************************************************)
EXTENDS Integers, Sequences, FiniteSets, TLC

VARIABLES
    \* ---- ExperienceBuffer
    capacity,       \* deque maxlen given to ExperienceBuffer.__init__
    buffer,         \* self.buffer, oldest record first
    history,        \* every record ever passed to append, in call order
    sampleRet,      \* what the last sample call returned (or raised)
    \* ---- Agent
    state,          \* self.state
    total_reward,   \* self.total_reward
    episode,        \* the rewards of the steps taken since the last _reset()
    playRet,        \* the last play_step call: its inputs, draws and result
    calls,          \* play_step calls made so far by the agent specification
    \* ---- calc_loss
    lossIn,         \* the batch and what the two networks return on it
    lossOut,        \* the tensors calc_loss computes and the loss it returns
    \* ---- the training loop of __main__
    pc,             \* where the loop stands: top, episode, gate, sync, train, done
    frame_idx,      \* frame_idx
    epsilon,        \* epsilon
    reward,         \* what agent.play_step returned in this iteration
    total_rewards,  \* total_rewards
    best_mean_reward,
    net,            \* the online network's parameters: the optimizer steps applied
    tgt_net,        \* the target network's parameters: -1 its own initial ones,
                    \* otherwise the online parameters it was copied from
    saved,          \* the parameters last written to <env>-best.dat
    events,         \* the calls made so far in the current iteration
    \* ---- the training loop of cartPole_PG.py
    pg_pc,          \* where that loop stands: top, episode, gate, update, done
    exp_count,      \* the experiences exp_source has yielded so far
    step_idx,       \* step_idx
    reward_sum,     \* reward_sum
    batch_states,   \* batch_states
    batch_actions,  \* batch_actions
    batch_scales,   \* batch_scales
    new_rewards,    \* what exp_source.pop_total_rewards() returned
    pg_total_rewards,   \* total_rewards of cartPole_PG.py
    pg_steps,       \* the optimizer steps applied to the policy network
    pg_events       \* the calls made so far in the current iteration

bufVars == <<capacity, buffer, history, sampleRet>>
agentVars == <<state, total_reward, episode, playRet, calls>>
lossVars == <<lossIn, lossOut>>
loopVars == <<pc, frame_idx, epsilon, reward, total_rewards, best_mean_reward, net,
              tgt_net, saved, events>>
pgVars == <<pg_pc, exp_count, step_idx, reward_sum, batch_states,
            batch_actions, batch_scales, new_rewards, pg_total_rewards,
            pg_steps, pg_events>>
vars == <<bufVars, agentVars, lossVars, loopVars, pgVars>>

(***************************************************************************)
(* Value domains.                                                          *)
(***************************************************************************)
Obs == {0, 1}                  \* observations env.step returns
ResetObs == {0}                \* observations env.reset returns
Actions == {0, 1}              \* env.action_space, action_space.n = 2

\* Experience = namedtuple('Experience', [state, action, reward, done, new_state])
Experience(s, a, r, d, n) ==
    [state |-> s, action |-> a, reward |-> r, done |-> d, new_state |-> n]

(***************************************************************************)
(* ExperienceBuffer                                                        *)
(***************************************************************************)
MaxCap == 3

\* A bounded store that refuses a new record once it is full.
DequeAppendKeepOldest(buf, cap, e) ==
    IF Len(buf) >= cap THEN buf ELSE Append(buf, e)

\* A full store that drops its two oldest records for a new one.
DequeAppendEvictTwo(buf, cap, e) ==
    IF Len(buf) >= cap /\ Len(buf) >= 2
    THEN Append(Tail(Tail(buf)), e)
    ELSE IF Len(buf) >= cap THEN Append(Tail(buf), e) ELSE Append(buf, e)

\* collections.deque(maxlen=cap).append(e): the record is added on the right
\* and, when that makes the deque longer than maxlen, the leftmost is dropped.
DequeAppend(buf, cap, e) ==
    LET b == Append(buf, e)
    IN  IF Len(b) > cap THEN Tail(b) ELSE b

\* np.array(rewards).astype(np.float32): an integer of magnitude up to 2^24
\* is kept exactly; between 2^24 and 2^25 float32 holds the even integers.
\* Every reward of the model is in the exact range.
Float32(r) == IF r >= -16777216 /\ r <= 16777216 THEN r ELSE 2 * (r \div 2)

\* np.array(dones).astype(np.uint8): False -> 0, True -> 1.
Uint8(d) == IF d THEN 1 ELSE 0

\* No sample call has returned since the last append.
NoSample ==
    [status |-> "none", batch_size |-> 0, indices |-> <<>>, states |-> <<>>,
     actions |-> <<>>, rewards |-> <<>>, dones |-> <<>>, next_states |-> <<>>]

\* sample(k) raised ValueError and returned nothing.
SampleError(k) ==
    [status |-> "ValueError", batch_size |-> k, indices |-> <<>>, states |-> <<>>,
     actions |-> <<>>, rewards |-> <<>>, dones |-> <<>>, next_states |-> <<>>]

\* All sequences of k pairwise-distinct elements of 0..n-1: the values of
\* np.random.choice(n, k, replace=False).
RECURSIVE Choices(_, _)
Choices(n, k) ==
    IF k = 0 THEN {<<>>}
    ELSE UNION {{Append(c, i) : i \in (0 .. n - 1) \ {c[j] : j \in 1 .. Len(c)}}
                   : c \in Choices(n, k - 1)}

\* The five arrays sample() builds from the drawn indices (0-based, as in
\* Python; buf is 1-based).  zip(*[]) yields nothing to unpack into the five
\* names, so an empty draw raises ValueError.
SampleArrays(buf, idxs) ==
    IF Len(idxs) = 0 THEN SampleError(0)
    ELSE [status      |-> "ok",
          batch_size  |-> Len(idxs),
          indices     |-> idxs,
          states      |-> [j \in 1 .. Len(idxs) |-> buf[idxs[j] + 1].state],
          actions     |-> [j \in 1 .. Len(idxs) |-> buf[idxs[j] + 1].action],
          rewards     |-> [j \in 1 .. Len(idxs) |-> Float32(buf[idxs[j] + 1].reward)],
          dones       |-> [j \in 1 .. Len(idxs) |-> Uint8(buf[idxs[j] + 1].done)],
          next_states |-> [j \in 1 .. Len(idxs) |-> buf[idxs[j] + 1].new_state]]

\* A sample() that draws its indices with replacement: any batch_size goes
\* through on a buffer that holds a record.
SampleResultsWithReplacement(buf, k) ==
    IF Len(buf) = 0 /\ k > 0 THEN {SampleError(k)}
    ELSE {SampleArrays(buf, idxs) : idxs \in [1 .. k -> 0 .. Len(buf) - 1]}

\* ExperienceBuffer.sample(batch_size): the possible results.  With
\* batch_size > len(buffer), np.random.choice(..., replace=False) raises
\* ValueError.
SampleResults(buf, k) ==
    IF k > Len(buf) THEN {SampleError(k)}
    ELSE {SampleArrays(buf, idxs) : idxs \in Choices(Len(buf), k)}

(***************************************************************************)
(* Agent                                                                   *)
(***************************************************************************)
Rewards == {0, 1}              \* rewards env.step returns
QVals == {0, 1}                \* values the network predicts for an action

\* Optional values: None is the empty sequence, a value v is <<v>>.
None == <<>>
Some(v) == <<v>>

\* REPLAY_SIZE = 10000, scaled.
REPLAY_SIZE == 2

\* Epsilon and the draw of np.random.random() are multiples of 1/EpsDen:
\* epsilon in [0, 1] is 0..EpsDen, the draw in [0, 1) is 0..EpsDen-1.
\* EPSILON_DECAY_LAST_FRAME = 10**5, scaled; EPSILON_FINAL = 0.02 = 1/50.
EPSILON_DECAY_LAST_FRAME == 4
EpsDen == 50 * EPSILON_DECAY_LAST_FRAME
Draws == {0, EpsDen - 1}
Epsilons == {0, EpsDen \div 2, EpsDen}

\* net(state_v): the network is external, it may predict any values.
QVectors == {<<q0, q1>> : q0 \in QVals, q1 \in QVals}

\* No play_step call yet.
NoStep ==
    [called |-> FALSE, epsilon |-> 0, draw |-> 0, branch |-> "none",
     q_vals |-> None, action |-> 0, reward |-> 0, done |-> FALSE,
     new_state |-> 0, prev_state |-> 0, prev_total |-> 0,
     reset_obs |-> None, ret |-> None]

\* The test of line 61 with <= for <.
ExploreOrEqual(draw, eps) == draw <= eps

\* line 61: np.random.random() < epsilon
Explore(draw, eps) == draw < eps

\* lines 67-68: torch.max(q_vals, dim=1): an index of a largest value; which
\* one among equal values is left to the implementation.
ArgMax(qv) ==
    {a \in Actions : \A b \in Actions : qv[b + 1] <= qv[a + 1]}

\* The record built after self.state = new_state (line 74) instead of before.
StepRecordAfterUpdate(s, a, r, d, n) == Experience(n, a, r, d, n)

\* line 72: exp = Experience(self.state, action, reward, done, new_state)
StepRecord(s, a, r, d, n) == Experience(s, a, r, d, n)

\* A return value that is None also for a completed episode of return 0.
DoneRewardTruthy(done, total) == IF done /\ total # 0 THEN Some(total) ELSE None

\* lines 59, 76-77, 81: the value play_step returns.
DoneReward(done, total) == IF done THEN Some(total) ELSE None

\* A play_step that does not reset the state on done.
StateAfterNoReset(done, new_state, reset_obs) == new_state

\* A play_step that resets the state after every step.
StateAfterAlwaysReset(done, new_state, reset_obs) ==
    IF done THEN reset_obs[1] ELSE CHOOSE o \in ResetObs : TRUE

\* lines 74, 76-78, 54: self.state after the call.
StateAfter(done, new_state, reset_obs) ==
    IF done THEN reset_obs[1] ELSE new_state

\* lines 71, 76-78, 55: self.total_reward after the call.
TotalAfter(done, total) == IF done THEN 0 ELSE total

\* The agent of a specification that constructs none.
AgentIdle ==
    /\ state = 0
    /\ total_reward = 0
    /\ episode = <<>>
    /\ playRet = NoStep
    /\ calls = 0

\* Agent.__init__: self._reset() on a fresh buffer.
AgentInit ==
    /\ buffer = <<>>
    /\ state \in ResetObs
    /\ total_reward = 0
    /\ episode = <<>>
    /\ playRet = NoStep

\* Agent.play_step(net, epsilon): the whole call, the buffer append included.
PlayStep(eps) ==
    \E draw \in Draws, new_state \in Obs, rew \in Rewards, done \in BOOLEAN :
      \E qv \in (IF Explore(draw, eps) THEN {None} ELSE {Some(q) : q \in QVectors}),
         reset_obs \in (IF done THEN {Some(o) : o \in ResetObs} ELSE {None}) :
       \E action \in (IF Explore(draw, eps) THEN Actions ELSE ArgMax(qv[1])) :
        /\ buffer' = DequeAppend(buffer, capacity,
                                 StepRecord(state, action, rew, done, new_state))
        /\ state' = StateAfter(done, new_state, reset_obs)
        /\ total_reward' = TotalAfter(done, total_reward + rew)
        /\ episode' = IF done THEN <<>> ELSE Append(episode, rew)
        /\ playRet' =
              [called |-> TRUE, epsilon |-> eps, draw |-> draw,
               branch |-> IF Explore(draw, eps) THEN "sampler" ELSE "net",
               q_vals |-> qv, action |-> action, reward |-> rew,
               done |-> done, new_state |-> new_state, prev_state |-> state,
               prev_total |-> total_reward,
               reset_obs |-> reset_obs,
               ret |-> DoneReward(done, total_reward + rew)]

(***************************************************************************)
(* calc_loss                                                               *)
(***************************************************************************)
\* GAMMA = 0.99 = GAMMA_NUM / GAMMA_DEN.  A discount factor is its numerator
\* over GAMMA_DEN; expected values and the loss are exact rationals with
\* denominators GAMMA_DEN and GAMMA_DEN^2 * batch size.
GAMMA_NUM == 99
GAMMA_DEN == 100

\* The discount factors calc_loss is applied with: the script's, and 0.
Gammas == {0, GAMMA_NUM}

\* The batch sizes calc_loss is applied to.
LossBatchSizes == {1, 2}

RECURSIVE SeqsOf(_, _)
SeqsOf(S, n) ==
    IF n = 0 THEN {<<>>}
    ELSE {Append(q, x) : q \in SeqsOf(S, n - 1), x \in S}

\* A batch as sample() returns it, with net(states_v) and
\* tgt_net(next_states_v): one vector of per-action values per row.  The
\* observations themselves reach calc_loss only through the two networks.
LossInputs ==
    UNION {[actions  : SeqsOf(Actions, n),
            rewards  : SeqsOf({Float32(r) : r \in Rewards}, n),
            dones    : SeqsOf({Uint8(d) : d \in BOOLEAN}, n),
            net_out  : SeqsOf(QVectors, n),
            tgt_out  : SeqsOf(QVectors, n),
            gamma    : Gammas] : n \in LossBatchSizes}

NoLossIn ==
    [actions |-> <<>>, rewards |-> <<>>, dones |-> <<>>, net_out |-> <<>>,
     tgt_out |-> <<>>, gamma |-> GAMMA_NUM]

NoLossOut ==
    [called |-> FALSE, state_action_values |-> <<>>, next_state_values |-> <<>>,
     expected |-> <<>>, loss_num |-> 0, loss_den |-> 1]

\* line 91: net(states_v).gather(1, actions_v.unsqueeze(-1)).squeeze(-1)
Gather(out, actions) ==
    [i \in 1 .. Len(out) |-> out[i][actions[i] + 1]]

\* line 93: tgt_net(next_states_v).max(1)[0]
RowMax(row) == CHOOSE m \in {row[a + 1] : a \in Actions} :
                   \A a \in Actions : row[a + 1] <= m

MaxPerRow(out) == [i \in 1 .. Len(out) |-> RowMax(out[i])]

\* A calc_loss without the zeroing of line 94.
MaskDoneNothing(values, dones) == values

\* line 94: next_state_values[done_mask] = 0.0, done_mask a ByteTensor.
MaskDone(values, dones) ==
    [i \in 1 .. Len(values) |-> IF dones[i] # 0 THEN 0 ELSE values[i]]

\* line 97: next_state_values * GAMMA + rewards_v, in units of 1 / GAMMA_DEN.
ExpectedValues(values, rewards, gamma) ==
    [i \in 1 .. Len(values) |-> values[i] * gamma + rewards[i] * GAMMA_DEN]

RECURSIVE SumSquares(_, _, _)
SumSquares(x, y, n) ==
    IF n = 0 THEN 0
    ELSE (x[n] * GAMMA_DEN - y[n]) * (x[n] * GAMMA_DEN - y[n])
         + SumSquares(x, y, n - 1)

\* The sum of the squared differences instead of their mean.
MSELossSum(x, y) ==
    [num |-> SumSquares(x, y, Len(x)), den |-> GAMMA_DEN * GAMMA_DEN]

\* line 98: nn.MSELoss()(x, y), the mean of the squared differences, x in
\* units of 1 and y in units of 1 / GAMMA_DEN.
MSELoss(x, y) ==
    [num |-> SumSquares(x, y, Len(x)), den |-> GAMMA_DEN * GAMMA_DEN * Len(x)]

\* calc_loss(batch, net, tgt_net)
CalcLoss(in) ==
    LET state_action_values == Gather(in.net_out, in.actions)
        next_state_values   == MaskDone(MaxPerRow(in.tgt_out), in.dones)
        expected            == ExpectedValues(next_state_values, in.rewards, in.gamma)
        loss                == MSELoss(state_action_values, expected)
    IN  [called              |-> TRUE,
         state_action_values |-> state_action_values,
         next_state_values   |-> next_state_values,
         expected            |-> expected,
         loss_num            |-> loss.num,
         loss_den            |-> loss.den]

\* The calc_loss variables of a specification that does not follow them.
LossIdle ==
    /\ lossIn = NoLossIn
    /\ lossOut = NoLossOut

(***************************************************************************)
(* The training loop of cartPole_PG.py                                     *)
(***************************************************************************)
\* BATCH_SIZE = 8 of cartPole_PG.py, scaled.
PG_BATCH_SIZE == 2

\* The 195 of line 80 and the 100 of total_rewards[-100:] (line 73), scaled.
PG_REWARD_BOUND == 2
PG_MEAN_WINDOW == 2

\* What exp_source yields: exp.state, exp.action, exp.reward.
PGObs == {0, 1}
PGActions == {0, 1}
PGRewards == {1, 2}

\* The episode totals pop_total_rewards() reports.
PGEpisodeRewards == {1, 3}

\* lines 52-58: the script's variables before the loop.
PGStart ==
    /\ exp_count = 0
    /\ step_idx = 0
    /\ reward_sum = 0
    /\ batch_states = <<>>
    /\ batch_actions = <<>>
    /\ batch_scales = <<>>
    /\ new_rewards = <<>>
    /\ pg_total_rewards = <<>>
    /\ pg_steps = 0
    /\ pg_events = <<>>

\* That loop in a specification that does not run it.
PGIdle ==
    /\ pg_pc = "idle"
    /\ PGStart

(***************************************************************************)
(* The training loop of __main__                                           *)
(***************************************************************************)
\* REPLAY_START_SIZE = 10000 (= REPLAY_SIZE), SYNC_TARGET_FRAMES = 1000 (a
\* divisor of REPLAY_START_SIZE), BATCH_SIZE = 32 (at most REPLAY_START_SIZE
\* and more than one record): scaled, the relations kept.
REPLAY_START_SIZE == 2
SYNC_TARGET_FRAMES == 2
BATCH_SIZE == 2

\* MEAN_REWARD_BOUND = 19.5, the default of --reward: scaled to 1.5, as
\* MEAN_REWARD_BOUND_NUM / MEAN_REWARD_BOUND_DEN.
MEAN_REWARD_BOUND_NUM == 3
MEAN_REWARD_BOUND_DEN == 2

\* The 100 of total_rewards[-100:], scaled.
MEAN_WINDOW == 2

\* EPSILON_START = 1.0 and EPSILON_FINAL = 0.02 in units of 1 / EpsDen.
EPSILON_START == EpsDen
EPSILON_FINAL == EpsDen \div 50

Max(a, b) == IF a >= b THEN a ELSE b

\* line 128: max(EPSILON_FINAL, EPSILON_START - frame_idx / EPSILON_DECAY_LAST_FRAME)
Epsilon(f) ==
    Max(EPSILON_FINAL, EPSILON_START - f * (EpsDen \div EPSILON_DECAY_LAST_FRAME))

RECURSIVE SumSeq(_)
SumSeq(q) == IF q = <<>> THEN 0 ELSE q[1] + SumSeq(Tail(q))

\* line 134: np.mean(total_rewards[-100:]), as a fraction num / den.
MeanOfLast(q, w) ==
    LET last == IF Len(q) <= w THEN q ELSE SubSeq(q, Len(q) - w + 1, Len(q))
    IN  [num |-> SumSeq(last), den |-> Len(last)]

\* a < b for fractions with positive denominators.
FracLess(a, b) == a.num * b.den < b.num * a.den

\* line 141: best_mean_reward is None or best_mean_reward < mean_reward
NewBest(best, mean) == best = None \/ FracLess(best[1], mean)

\* lines 143-145: best_mean_reward after the test of line 141 passed.
BestAfter(best, mean) == IF best # None THEN Some(mean) ELSE best

\* An exit test that also passes at the bound itself.
SolvedAtBound(mean) ==
    mean.num * MEAN_REWARD_BOUND_DEN >= MEAN_REWARD_BOUND_NUM * mean.den

\* line 147: mean_reward > args.reward
Solved(mean) ==
    mean.num * MEAN_REWARD_BOUND_DEN > MEAN_REWARD_BOUND_NUM * mean.den

\* line 132: reward is not None
EpisodeEnded(r) == r # None

\* The loop of a specification that does not run it.
LoopIdle ==
    /\ pc = "idle"
    /\ frame_idx = 0
    /\ epsilon = EPSILON_START
    /\ reward = None
    /\ total_rewards = <<>>
    /\ best_mean_reward = None
    /\ net = 0
    /\ tgt_net = 0
    /\ saved = None
    /\ events = <<>>

\* The number of frames the loop specification follows.
MaxFrames == 5

\* lines 109-124: two networks, each with its own initial parameters, the
\* buffer, the agent and the loop's variables.
Init ==
    /\ capacity = REPLAY_SIZE
    /\ history = <<>>
    /\ sampleRet = NoSample
    /\ AgentInit
    /\ calls = 0
    /\ LossIdle
    /\ PGIdle
    /\ pc = "top"
    /\ frame_idx = 0
    /\ epsilon = EPSILON_START
    /\ reward = None
    /\ total_rewards = <<>>
    /\ best_mean_reward = None
    /\ net = 0
    /\ tgt_net = -1
    /\ saved = None
    /\ events = <<>>

\* lines 127-130: the next frame: epsilon and agent.play_step.
LoopPlayStep ==
    /\ pc = "top"
    /\ frame_idx < MaxFrames
    /\ frame_idx' = frame_idx + 1
    /\ epsilon' = Epsilon(frame_idx')
    /\ PlayStep(epsilon')
    /\ reward' = playRet'.ret
    /\ calls' = calls + 1
    /\ sampleRet' = NoSample
    /\ events' = <<"play_step">>
    /\ pc' = "episode"
    /\ UNCHANGED <<capacity, history, lossVars, pgVars, total_rewards,
                   best_mean_reward, net, tgt_net, saved>>

\* lines 132-149: the bookkeeping of a completed episode, and the exit.
LoopEpisode ==
    /\ pc = "episode"
    /\ playRet' = NoStep
    /\ IF EpisodeEnded(reward)
       THEN LET rewards == Append(total_rewards, reward[1])
                mean_reward == MeanOfLast(rewards, MEAN_WINDOW)
                better == NewBest(best_mean_reward, mean_reward)
            IN  /\ total_rewards' = rewards
                /\ saved' = IF better THEN Some(net) ELSE saved
                /\ events' = IF better THEN Append(events, "save") ELSE events
                /\ best_mean_reward' =
                      IF better THEN BestAfter(best_mean_reward, mean_reward)
                      ELSE best_mean_reward
                /\ pc' = IF better /\ Solved(mean_reward) THEN "done" ELSE "gate"
       ELSE /\ pc' = "gate"
            /\ UNCHANGED <<total_rewards, saved, events, best_mean_reward>>
    /\ UNCHANGED <<bufVars, state, total_reward, episode, calls, lossVars, pgVars,
                   frame_idx, epsilon, reward, net, tgt_net>>

\* A loop without the test of line 151.
LoopGateOpen ==
    /\ pc = "gate"
    /\ pc' = "sync"
    /\ UNCHANGED <<bufVars, agentVars, lossVars, pgVars, frame_idx, epsilon, reward,
                   total_rewards, best_mean_reward, net, tgt_net, saved, events>>

\* lines 151-152: no training before the buffer holds REPLAY_START_SIZE.
LoopGate ==
    /\ pc = "gate"
    /\ pc' = IF Len(buffer) < REPLAY_START_SIZE THEN "top" ELSE "sync"
    /\ UNCHANGED <<bufVars, agentVars, lossVars, pgVars, frame_idx, epsilon, reward,
                   total_rewards, best_mean_reward, net, tgt_net, saved, events>>

\* A copy of the online parameters on every frame.
SyncDueEveryFrame(f) == TRUE

\* A copy one frame after each multiple of SYNC_TARGET_FRAMES.
SyncDueOffByOne(f) == f % SYNC_TARGET_FRAMES = 1

\* line 154: frame_idx % SYNC_TARGET_FRAMES == 0
SyncDue(f) == f % SYNC_TARGET_FRAMES = 0

\* lines 154-155: tgt_net.load_state_dict(net.state_dict())
LoopSync ==
    /\ pc = "sync"
    /\ tgt_net' = IF SyncDue(frame_idx) THEN net ELSE tgt_net
    /\ events' = IF SyncDue(frame_idx) THEN Append(events, "sync") ELSE events
    /\ pc' = "train"
    /\ UNCHANGED <<bufVars, agentVars, lossVars, pgVars, frame_idx, epsilon, reward,
                   total_rewards, best_mean_reward, net, saved>>

\* An iteration that draws its batch and goes on to the next frame without
\* the loss and the optimizer step.
LoopTrainSampleOnly ==
    /\ pc = "train"
    /\ sampleRet' \in SampleResults(buffer, BATCH_SIZE)
    /\ net' = net
    /\ events' = events \o <<"zero_grad", "sample">>
    /\ pc' = "top"
    /\ UNCHANGED <<capacity, buffer, history, agentVars, lossVars, pgVars, frame_idx,
                   epsilon, reward, total_rewards, best_mean_reward, tgt_net,
                   saved>>

\* lines 157-161: zero_grad, sample, calc_loss, backward, optimizer step.  A
\* sample() that raises ends the process before the step.
LoopTrain ==
    /\ pc = "train"
    /\ sampleRet' \in SampleResults(buffer, BATCH_SIZE)
    /\ IF sampleRet'.status = "ok"
       THEN /\ net' = net + 1
            /\ events' = events \o <<"zero_grad", "sample", "calc_loss",
                                      "backward", "step">>
            /\ pc' = "top"
       ELSE /\ net' = net
            /\ events' = events \o <<"zero_grad", "sample">>
            /\ pc' = "crashed"
    /\ UNCHANGED <<capacity, buffer, history, agentVars, lossVars, pgVars, frame_idx,
                   epsilon, reward, total_rewards, best_mean_reward, tgt_net,
                   saved>>

Next ==
    \/ LoopPlayStep
    \/ LoopEpisode
    \/ LoopGate
    \/ LoopSync
    \/ LoopTrain

Spec == Init /\ [][Next]_vars

(***************************************************************************)
(* The buffer specification                                                *)
(***************************************************************************)
\* The records the buffer specification appends: one per reward 1..4, the
\* other fields chosen so that each of the five fields varies over the set
\* and state differs from new_state in every record.
BufRewards == {1, 2, 3, 4}
BufInputs ==
    {Experience(r % 2, (r \div 2) % 2, r, r % 3 = 0, (r + 1) % 2) : r \in BufRewards}

\* The number of append calls the buffer specification follows.
MaxAppends == MaxCap + 1

\* The largest batch_size the buffer specification passes to sample().
MaxBatch == 2

\* ExperienceBuffer.__init__(capacity); nothing appended or sampled yet.
InitBuf ==
    /\ capacity \in 1 .. MaxCap
    /\ buffer = <<>>
    /\ history = <<>>
    /\ sampleRet = NoSample
    /\ AgentIdle
    /\ LossIdle
    /\ PGIdle
    /\ LoopIdle

\* ExperienceBuffer.append(experience)
BufAppend(e) ==
    /\ Len(history) < MaxAppends
    /\ buffer' = DequeAppend(buffer, capacity, e)
    /\ history' = Append(history, e)
    /\ sampleRet' = NoSample
    /\ UNCHANGED <<capacity, agentVars, lossVars, pgVars, loopVars>>

\* A sample() that removes the records it returns from the buffer.
BufSampleDrain(k) ==
    /\ sampleRet' \in SampleResults(buffer, k)
    /\ buffer' = SelectSeq(buffer, LAMBDA e :
                    \A j \in 1 .. Len(sampleRet'.indices) :
                        buffer[sampleRet'.indices[j] + 1] # e)
    /\ UNCHANGED <<capacity, history, agentVars, lossVars, pgVars, loopVars>>

\* ExperienceBuffer.sample(batch_size)
BufSample(k) ==
    /\ sampleRet' \in SampleResults(buffer, k)
    /\ UNCHANGED <<capacity, buffer, history, agentVars, lossVars, pgVars, loopVars>>

NextBuf ==
    \/ \E e \in BufInputs : BufAppend(e)
    \/ \E k \in 0 .. MaxBatch : BufSample(k)

SpecBuf == InitBuf /\ [][NextBuf]_vars

(***************************************************************************)
(* The agent specification                                                 *)
(***************************************************************************)
\* The number of play_step calls the agent specification follows.
MaxCalls == 3

InitAgent ==
    /\ capacity = REPLAY_SIZE
    /\ history = <<>>
    /\ sampleRet = NoSample
    /\ AgentInit
    /\ calls = 0
    /\ LossIdle
    /\ PGIdle
    /\ LoopIdle

AgentPlayStep(eps) ==
    /\ calls < MaxCalls
    /\ PlayStep(eps)
    /\ calls' = calls + 1
    /\ UNCHANGED <<capacity, history, sampleRet, lossVars, pgVars, loopVars>>

NextAgent == \E eps \in Epsilons : AgentPlayStep(eps)

SpecAgent == InitAgent /\ [][NextAgent]_vars

(***************************************************************************)
(* The calc_loss specification                                             *)
(***************************************************************************)
InitLoss ==
    /\ capacity = REPLAY_SIZE
    /\ buffer = <<>>
    /\ history = <<>>
    /\ sampleRet = NoSample
    /\ AgentIdle
    /\ lossIn \in LossInputs
    /\ lossOut = NoLossOut
    /\ LoopIdle
    /\ PGIdle

CalcLossCall ==
    /\ ~lossOut.called
    /\ lossOut' = CalcLoss(lossIn)
    /\ UNCHANGED <<bufVars, agentVars, lossIn, loopVars, pgVars>>

NextLoss == CalcLossCall

SpecLoss == InitLoss /\ [][NextLoss]_vars

(***************************************************************************)
(* The epsilon schedule of line 128 in Python floats (IEEE 754 binary64),  *)
(* with the script's own constants.  A float of [0, 2) is the sequence of  *)
(* its binary digits: the unit digit first, then FRAC_BITS digits after    *)
(* the point.                                                              *)
(***************************************************************************)
\* The significant binary digits of a binary64 value.
MANT_BITS == 53

\* Digits after the point: enough for the 53 digits and the rounding digit
\* of every value of at least 2^-21, which covers 1 / EPSILON_DECAY_LAST_FRAME
\* and all the differences the schedule forms.
FRAC_BITS == 75

\* EPSILON_DECAY_LAST_FRAME = 10**5, unscaled.
EPSILON_DECAY_LAST_FRAME_INT == 100000

\* The first k binary digits after the point of r / d, for 0 <= r < d.
RECURSIVE FracDigits(_, _, _)
FracDigits(r, d, k) ==
    IF k = 0 THEN <<>>
    ELSE <<(2 * r) \div d>> \o FracDigits((2 * r) % d, d, k - 1)

\* What is left of r / d after those k digits.
RECURSIVE FracRem(_, _, _)
FracRem(r, d, k) ==
    IF r = 0 \/ k = 0 THEN r ELSE FracRem((2 * r) % d, d, k - 1)

\* The position of the first digit 1 of bits, 0 when there is none.
LeadingOne(bits) ==
    IF \A i \in 1 .. Len(bits) : bits[i] = 0 THEN 0
    ELSE CHOOSE i \in 1 .. Len(bits) :
            bits[i] = 1 /\ \A j \in 1 .. i - 1 : bits[j] = 0

\* One unit added at position k, with its carries.
RECURSIVE AddUnit(_, _)
AddUnit(bits, k) ==
    IF k = 0 THEN bits
    ELSE IF bits[k] = 0 THEN [bits EXCEPT ![k] = 1]
    ELSE AddUnit([bits EXCEPT ![k] = 0], k - 1)

\* Rounding to MANT_BITS significant digits, to nearest, ties to even; more
\* is TRUE when the exact value has non-zero digits beyond those of bits.
RoundBinary64(bits, more) ==
    LET p == LeadingOne(bits)
        last == p + MANT_BITS - 1
    IN  IF p = 0 \/ last >= Len(bits) THEN bits
        ELSE LET half == bits[last + 1] = 1
                 rest == more \/ \E i \in last + 2 .. Len(bits) : bits[i] = 1
                 kept == SubSeq(bits, 1, last) \o
                             [i \in 1 .. Len(bits) - last |-> 0]
             IN  IF half /\ (rest \/ bits[last] = 1)
                 THEN AddUnit(kept, last) ELSE kept

\* The float n / d of two ints 0 <= n < 2 * d (Python's true division, and
\* the value of a decimal literal n / d): the quotient correctly rounded.
FloatDiv(n, d) ==
    RoundBinary64(<<n \div d>> \o FracDigits(n % d, d, FRAC_BITS),
                  FracRem(n % d, d, FRAC_BITS) # 0)

\* a < b
FloatLess(a, b) ==
    \E i \in 1 .. Len(a) :
        a[i] < b[i] /\ \A j \in 1 .. i - 1 : a[j] = b[j]

\* max(a, b)
FloatMax(a, b) == IF FloatLess(a, b) THEN b ELSE a

\* The borrow taken from position i in a - b: the digits of a to the right
\* of i read as a smaller number than those of b.
Borrow(a, b, i) ==
    IF \E j \in i + 1 .. Len(a) :
          a[j] < b[j] /\ \A k \in i + 1 .. j - 1 : a[k] = b[k]
    THEN 1 ELSE 0

\* The float a - b for a >= b: the exact difference, rounded.
FloatSub(a, b) ==
    RoundBinary64([i \in 1 .. Len(a) |->
                      (a[i] - b[i] - Borrow(a, b, i) + 2) % 2], FALSE)

\* EPSILON_START = 1.0 and EPSILON_FINAL = 0.02 as floats.
EPSILON_START_FLOAT == FloatDiv(1, 1)
EPSILON_FINAL_FLOAT == FloatDiv(2, 100)

\* The schedule without its floor.
EpsilonFloatNoFloor(f) ==
    LET q == FloatDiv(f, EPSILON_DECAY_LAST_FRAME_INT)
    IN  IF FloatLess(EPSILON_START_FLOAT, q) THEN EPSILON_FINAL_FLOAT
        ELSE FloatSub(EPSILON_START_FLOAT, q)

\* line 128: max(EPSILON_FINAL, EPSILON_START - frame_idx / EPSILON_DECAY_LAST_FRAME)
\* for 0 <= frame_idx < 2 * EPSILON_DECAY_LAST_FRAME; a negative difference
\* is below EPSILON_FINAL.
EpsilonFloat(f) ==
    LET q == FloatDiv(f, EPSILON_DECAY_LAST_FRAME_INT)
    IN  IF FloatLess(EPSILON_START_FLOAT, q) THEN EPSILON_FINAL_FLOAT
        ELSE FloatMax(EPSILON_FINAL_FLOAT, FloatSub(EPSILON_START_FLOAT, q))

\* The frames the schedule specification starts from: the start of the run,
\* and a frame shortly before the schedule reaches its floor.
EpsStartFrames == {0, 97950}

\* The number of frames the schedule specification follows from each.
MaxEpsFrames == 60

\* lines 119, 123: epsilon = EPSILON_START and frame_idx = 0 at the start of
\* the run; later in the run, epsilon is the schedule's value of the frame.
InitEps ==
    /\ capacity = REPLAY_SIZE
    /\ buffer = <<>>
    /\ history = <<>>
    /\ sampleRet = NoSample
    /\ AgentIdle
    /\ LossIdle
    /\ PGIdle
    /\ pc = "idle"
    /\ frame_idx \in EpsStartFrames
    /\ epsilon = IF frame_idx = 0 THEN EPSILON_START_FLOAT
                 ELSE EpsilonFloat(frame_idx)
    /\ reward = None
    /\ total_rewards = <<>>
    /\ best_mean_reward = None
    /\ net = 0
    /\ tgt_net = 0
    /\ saved = None
    /\ events = <<>>

\* lines 127-128 of the next iteration.
EpsNextFrame ==
    /\ \E s \in EpsStartFrames : s <= frame_idx /\ frame_idx < s + MaxEpsFrames
    /\ frame_idx' = frame_idx + 1
    /\ epsilon' = EpsilonFloat(frame_idx')
    /\ UNCHANGED <<bufVars, agentVars, lossVars, pgVars, pc, reward, total_rewards,
                   best_mean_reward, net, tgt_net, saved, events>>

NextEps == EpsNextFrame

SpecEps == InitEps /\ [][NextEps]_vars

(***************************************************************************)
(* The policy-gradient loop specification                                  *)
(***************************************************************************)
\* The number of experiences the specification draws from exp_source.
MaxPGSteps == 5

\* lines 40-58
InitPG ==
    /\ capacity = REPLAY_SIZE
    /\ buffer = <<>>
    /\ history = <<>>
    /\ sampleRet = NoSample
    /\ AgentIdle
    /\ LossIdle
    /\ LoopIdle
    /\ pg_pc = "top"
    /\ PGStart

\* line 66: exp.reward - baseline with baseline = reward_sum / (step_idx + 1),
\* as a fraction.
Scale(r, sum, idx) == [num |-> r * (idx + 1) - sum, den |-> idx + 1]

\* lines 73, 80: float(np.mean(total_rewards[-100:])) > 195
PGSolved(q) ==
    LET mean == MeanOfLast(q, PG_MEAN_WINDOW)
    IN  mean.num > PG_REWARD_BOUND * mean.den

\* lines 60-68: the next experience: the baseline, the three appends and
\* pop_total_rewards().
PGNextExperience ==
    /\ pg_pc = "top"
    /\ exp_count < MaxPGSteps
    /\ \E s \in PGObs, a \in PGActions, r \in PGRewards :
          /\ reward_sum' = reward_sum + r
          /\ batch_states' = Append(batch_states, s)
          /\ batch_actions' = Append(batch_actions, a)
          /\ batch_scales' = Append(batch_scales,
                                    Scale(r, reward_sum + r, exp_count))
    /\ step_idx' = exp_count
    /\ exp_count' = exp_count + 1
    /\ new_rewards' \in {<<>>} \cup {<<e>> : e \in PGEpisodeRewards}
    /\ pg_events' = <<"append">>
    /\ pg_pc' = "episode"
    /\ UNCHANGED <<bufVars, agentVars, lossVars, loopVars, pg_total_rewards,
                   pg_steps>>

\* lines 69-82: the bookkeeping of a completed episode, and the exit.
PGEpisode ==
    /\ pg_pc = "episode"
    /\ IF new_rewards # <<>>
       THEN /\ pg_total_rewards' = Append(pg_total_rewards, new_rewards[1])
            /\ pg_pc' = IF PGSolved(pg_total_rewards') THEN "done" ELSE "gate"
       ELSE /\ pg_total_rewards' = pg_total_rewards
            /\ pg_pc' = "gate"
    /\ UNCHANGED <<bufVars, agentVars, lossVars, loopVars, exp_count, step_idx,
                   reward_sum, batch_states, batch_actions, batch_scales,
                   new_rewards, pg_steps, pg_events>>

\* A gate that lets the batch grow one past BATCH_SIZE.
PGGateLate ==
    /\ pg_pc = "gate"
    /\ pg_pc' = IF Len(batch_states) <= PG_BATCH_SIZE THEN "top" ELSE "update"
    /\ UNCHANGED <<bufVars, agentVars, lossVars, loopVars, exp_count, step_idx,
                   reward_sum, batch_states, batch_actions, batch_scales,
                   new_rewards, pg_total_rewards, pg_steps, pg_events>>

\* lines 84-85: no update before the batch holds BATCH_SIZE entries.
PGGate ==
    /\ pg_pc = "gate"
    /\ pg_pc' = IF Len(batch_states) < PG_BATCH_SIZE THEN "top" ELSE "update"
    /\ UNCHANGED <<bufVars, agentVars, lossVars, loopVars, exp_count, step_idx,
                   reward_sum, batch_states, batch_actions, batch_scales,
                   new_rewards, pg_total_rewards, pg_steps, pg_events>>

\* lines 87-130: the loss, optimizer.step() and the three clear() calls.
PGUpdate ==
    /\ pg_pc = "update"
    /\ pg_steps' = pg_steps + 1
    /\ batch_states' = <<>>
    /\ batch_actions' = <<>>
    /\ batch_scales' = <<>>
    /\ pg_events' = pg_events \o <<"zero_grad", "backward", "step", "clear">>
    /\ pg_pc' = "top"
    /\ UNCHANGED <<bufVars, agentVars, lossVars, loopVars, exp_count, step_idx,
                   reward_sum, new_rewards, pg_total_rewards>>

NextPG ==
    \/ PGNextExperience
    \/ PGEpisode
    \/ PGGate
    \/ PGUpdate

SpecPG == InitPG /\ [][NextPG]_vars

(***************************************************************************)
(* Claims about ExperienceBuffer, checked under SpecBuf.                   *)
(***************************************************************************)
Min(a, b) == IF a <= b THEN a ELSE b

RewardsOf(recs) == [j \in 1 .. Len(recs) |-> recs[j].reward]

\* C1: after n append calls on a buffer of capacity C >= 1 the buffer holds
\* exactly the last min(n, C) appended records, in insertion order; its
\* length is min(n, C) and never exceeds C.
C1_BufferHoldsLastAppended ==
    LET n == Len(history)
        m == Min(n, capacity)
    IN  /\ Len(buffer) = m
        /\ Len(buffer) <= capacity
        /\ \A j \in 1 .. m : buffer[j] = history[n - m + j]

\* Capacity 3 and rewards 1, 2, 3, 4 appended: the buffer holds 2, 3, 4.
C1_Witness ==
    /\ capacity = 3
    /\ RewardsOf(history) = <<1, 2, 3, 4>>
    /\ RewardsOf(buffer) = <<2, 3, 4>>

\* C2: a sample call leaves the buffer as it was, the same records in the
\* same order and the same length, wherever it falls among the appends.
\* (Every step of SpecBuf that leaves a sample result is a sample call:
\* append clears the result.)
C2_SampleLeavesBuffer ==
    [][sampleRet' # NoSample =>
          /\ buffer' = buffer
          /\ Len(buffer') = Len(buffer)
          /\ capacity' = capacity]_vars

\* A sample of two records has returned from a full buffer that has already
\* evicted a record.
C2_Witness ==
    /\ sampleRet.status = "ok"
    /\ sampleRet.batch_size = 2
    /\ Len(buffer) = capacity
    /\ Len(history) > capacity

Distinct(idxs) ==
    \A i, j \in 1 .. Len(idxs) : i # j => idxs[i] # idxs[j]

\* The result of a sample call is k parallel rows drawn from buf.
ParallelRows(ret, buf, k) ==
    /\ ret.status = "ok"
    /\ Len(ret.indices) = k
    /\ Distinct(ret.indices)
    /\ \A j \in 1 .. k : ret.indices[j] \in 0 .. Len(buf) - 1
    /\ Len(ret.states) = k
    /\ Len(ret.actions) = k
    /\ Len(ret.rewards) = k
    /\ Len(ret.dones) = k
    /\ Len(ret.next_states) = k
    /\ \A j \in 1 .. k :
          LET rec == buf[ret.indices[j] + 1]
          IN  /\ ret.states[j] = rec.state
              /\ ret.actions[j] = rec.action
              /\ ret.rewards[j] = rec.reward
              /\ (ret.dones[j] = 1) = rec.done
              /\ ret.dones[j] \in {0, 1}
              /\ ret.next_states[j] = rec.new_state

\* C3: sample(k) on a buffer of length n >= k draws k pairwise-distinct
\* indices in 0..n-1 and returns five sequences of length k whose j-th
\* elements are the five fields of the record at the j-th drawn index.
C3_SampleParallel ==
    (sampleRet.status # "none" /\ sampleRet.batch_size <= Len(buffer))
        => ParallelRows(sampleRet, buffer, sampleRet.batch_size)

\* The same for 1 <= k <= n, the calls on which sample() returns.
C3_SampleParallelNonEmpty ==
    (/\ sampleRet.status # "none"
     /\ sampleRet.batch_size >= 1
     /\ sampleRet.batch_size <= Len(buffer))
        => ParallelRows(sampleRet, buffer, sampleRet.batch_size)

\* sample(0) raises on every buffer, the empty one included.
C3_SampleZeroRaises ==
    (sampleRet.status # "none" /\ sampleRet.batch_size = 0)
        => sampleRet.status = "ValueError"

(***************************************************************************)
(* Claims about Agent.play_step, checked under SpecAgent.                  *)
(***************************************************************************)
\* C5: after a play_step call whose environment step reported done, the
\* agent's state is the observation env.reset() returned and its reward
\* accumulator is 0; after a call with done false, the state is the
\* environment's next_state and the accumulator is its previous value plus
\* the step's reward.
C5_StateAfterStep ==
    playRet.called =>
        IF playRet.done
        THEN /\ playRet.reset_obs # None
             /\ state = playRet.reset_obs[1]
             /\ state \in ResetObs
             /\ total_reward = 0
        ELSE /\ state = playRet.new_state
             /\ total_reward = playRet.prev_total + playRet.reward

\* A terminal step whose next_state differs from the reset observation and
\* which ended an episode with a positive return.
C5_Witness ==
    /\ playRet.called
    /\ playRet.done
    /\ playRet.new_state = 1
    /\ state = 0
    /\ playRet.prev_total + playRet.reward > 0
    /\ total_reward = 0

\* The last c elements of a sequence.
KeepLast(seq, c) ==
    IF Len(seq) <= c THEN seq ELSE SubSeq(seq, Len(seq) - c + 1, Len(seq))

\* C6: every play_step call appends exactly one record: (the agent's state
\* before the step, the action chosen, and the reward, done flag and
\* next_state the environment returned); on a terminal step the stored
\* next_state is the environment's, not the reset observation.
C6_StepAppendsRecord ==
    [][calls' # calls =>
          LET rec == [state     |-> state,
                      action    |-> playRet'.action,
                      reward    |-> playRet'.reward,
                      done      |-> playRet'.done,
                      new_state |-> playRet'.new_state]
          IN  /\ playRet'.called
              /\ playRet'.prev_state = state
              /\ buffer' = KeepLast(Append(buffer, rec), capacity)]_vars

\* A terminal step has stored the terminal observation 1 while the agent
\* was reset to observation 0, the buffer being full before the call.
C6_Witness ==
    /\ playRet.called
    /\ playRet.done
    /\ calls > capacity
    /\ buffer[Len(buffer)].new_state = 1
    /\ buffer[Len(buffer)].done
    /\ buffer[Len(buffer)].state = 1
    /\ state = 0

\* C7: with epsilon = 1.0 every call takes its action from the environment's
\* sampler and does not evaluate the network, whatever the draw in [0, 1);
\* with epsilon = 0.0 every call evaluates the network and takes an action
\* of largest predicted value, and does not use the sampler.
C7_EpsilonExtremes ==
    playRet.called =>
        /\ playRet.epsilon = EpsDen =>
              /\ playRet.branch = "sampler"
              /\ playRet.q_vals = None
        /\ playRet.epsilon = 0 =>
              /\ playRet.branch = "net"
              /\ playRet.q_vals # None
              /\ \A b \in Actions :
                    playRet.q_vals[1][b + 1] <= playRet.q_vals[1][playRet.action + 1]

\* epsilon = 1.0 and the largest draw: the sampler chose the action.
C7_Witness ==
    /\ playRet.called
    /\ playRet.epsilon = EpsDen
    /\ playRet.draw = EpsDen - 1
    /\ playRet.branch = "sampler"
    /\ playRet.action = 1

\* epsilon = 0.0 and the smallest draw: the network's best action was taken.
C7_WitnessGreedy ==
    /\ playRet.called
    /\ playRet.epsilon = 0
    /\ playRet.draw = 0
    /\ playRet.branch = "net"
    /\ playRet.q_vals = Some(<<0, 1>>)
    /\ playRet.action = 1

(***************************************************************************)
(* Claims about calc_loss, checked under SpecLoss.                         *)
(***************************************************************************)
\* The rows of the batch on which done is set.
Terminal(in) == {i \in 1 .. Len(in.dones) : in.dones[i] = 1}

\* Target-network outputs that differ from those of the batch at most on
\* its terminal rows.
TerminalVariants(in) ==
    {t \in SeqsOf(QVectors, Len(in.tgt_out)) :
        \A i \in 1 .. Len(t) : i \notin Terminal(in) => t[i] = in.tgt_out[i]}

\* C8: for every row with done set the expected value is exactly the row's
\* reward, whatever the target network returns for it; a run that differs
\* only in the target network's output on terminal rows yields the same
\* expected values and the same loss.
C8_TerminalIgnoresTarget ==
    lossOut.called =>
        /\ \A i \in Terminal(lossIn) :
              lossOut.expected[i] = lossIn.rewards[i] * GAMMA_DEN
        /\ \A t \in TerminalVariants(lossIn) :
              LET other == CalcLoss([lossIn EXCEPT !.tgt_out = t])
              IN  /\ other.expected = lossOut.expected
                  /\ other.loss_num = lossOut.loss_num
                  /\ other.loss_den = lossOut.loss_den

\* A terminal row with reward 1 for which the target network predicts 1,
\* under the script's discount factor.
C8_Witness ==
    /\ lossOut.called
    /\ lossIn.gamma = GAMMA_NUM
    /\ lossIn.dones = <<0, 1>>
    /\ lossIn.rewards = <<0, 1>>
    /\ lossIn.tgt_out = <<<<1, 0>>, <<1, 1>>>>
    /\ lossOut.expected = <<GAMMA_NUM, GAMMA_DEN>>

\* The largest of a row of predicted values.
Largest(row) ==
    CHOOSE m \in QVals :
        /\ \E a \in Actions : row[a + 1] = m
        /\ \A a \in Actions : row[a + 1] <= m

\* The expected value of row i, in units of 1 / GAMMA_DEN.
ExpectedOf(in, i) ==
    IF in.dones[i] = 1
    THEN in.rewards[i] * GAMMA_DEN
    ELSE in.rewards[i] * GAMMA_DEN + in.gamma * Largest(in.tgt_out[i])

\* The squared difference of row i, in units of 1 / GAMMA_DEN^2.
SquaredErrorOf(in, i) ==
    LET diff == in.net_out[i][in.actions[i] + 1] * GAMMA_DEN - ExpectedOf(in, i)
    IN  diff * diff

RECURSIVE TotalSquaredError(_, _)
TotalSquaredError(in, n) ==
    IF n = 0 THEN 0 ELSE SquaredErrorOf(in, n) + TotalSquaredError(in, n - 1)

\* C9: calc_loss returns the mean over the rows of
\* (online[i][actions[i]] - expected[i])^2 with expected[i] = reward[i] +
\* gamma * max_a target[i][a] on a non-terminal row and reward[i] on a
\* terminal one; with gamma = 0 every expected[i] is reward[i].
C9_LossIsMeanSquaredError ==
    lossOut.called =>
        LET B == Len(lossIn.actions)
        IN  /\ Len(lossOut.expected) = B
            /\ \A i \in 1 .. B : lossOut.expected[i] = ExpectedOf(lossIn, i)
            /\ lossOut.loss_num * (GAMMA_DEN * GAMMA_DEN * B)
                  = TotalSquaredError(lossIn, B) * lossOut.loss_den
            /\ lossOut.loss_den > 0
            /\ lossIn.gamma = 0 =>
                  \A i \in 1 .. B :
                      lossOut.expected[i] = lossIn.rewards[i] * GAMMA_DEN

\* Two rows, the second terminal: expected values 1.99 and 0, predictions 1
\* and 1, loss (0.99^2 + 1^2) / 2 = 19801 / 20000.
C9_Witness ==
    /\ lossOut.called
    /\ lossIn.gamma = GAMMA_NUM
    /\ lossIn.actions = <<0, 1>>
    /\ lossIn.rewards = <<1, 0>>
    /\ lossIn.dones = <<0, 1>>
    /\ lossIn.net_out = <<<<1, 0>>, <<0, 1>>>>
    /\ lossIn.tgt_out = <<<<0, 1>>, <<1, 1>>>>
    /\ lossOut.expected = <<199, 0>>
    /\ lossOut.loss_num = 19801
    /\ lossOut.loss_den = 20000

\* Discount factor 0 on a non-terminal row for which the target network
\* predicts 1: the expected value is the reward.
C9_WitnessGammaZero ==
    /\ lossOut.called
    /\ lossIn.gamma = 0
    /\ lossIn.dones = <<0>>
    /\ lossIn.rewards = <<1>>
    /\ lossIn.tgt_out = <<<<1, 1>>>>
    /\ lossOut.expected = <<GAMMA_DEN>>

(***************************************************************************)
(* Claims about the training loop, checked under Spec.                     *)
(***************************************************************************)
\* C4: a play_step call returns None exactly when its environment step
\* reported done = false; when done it returns the sum of the rewards of all
\* steps since the last reset, the current one included, which differs from
\* None also when it is 0; the loop appends exactly one total_rewards entry,
\* that sum, for every completed episode and none on any other frame.
C4_EpisodeReturnRecorded ==
    [][/\ (pc = "top" /\ pc' = "episode") =>
              /\ (reward' = None) <=> ~playRet'.done
              /\ playRet'.done =>
                    /\ reward' # None
                    /\ Len(reward') = 1
                    /\ reward'[1] = SumSeq(episode) + playRet'.reward
       /\ pc = "episode" =>
              total_rewards' =
                  IF playRet.done
                  THEN Append(total_rewards, reward[1])
                  ELSE total_rewards
       /\ pc # "episode" => total_rewards' = total_rewards]_vars

\* Two episodes of two frames each have been recorded, the first with
\* return 0 and the second with return 2.
C4_Witness ==
    /\ pc = "gate"
    /\ frame_idx = 4
    /\ total_rewards = <<0, 2>>
    /\ reward = Some(2)

\* The steps of the loop as C10 describes them, the gradient updates of
\* the iterations that go on to the gate included.
C10_Step ==
    /\ tgt_net' # tgt_net =>
          /\ pc = "sync"
          /\ Len(buffer) >= REPLAY_START_SIZE
          /\ frame_idx % SYNC_TARGET_FRAMES = 0
          /\ tgt_net' = net
    /\ (pc = "sync" /\ frame_idx % SYNC_TARGET_FRAMES = 0) =>
          /\ tgt_net' = net'
          /\ net' = net
          /\ pc' = "train"
    /\ pc = "train" =>
          /\ net' = net + 1
          /\ tgt_net' = tgt_net
          /\ pc' = "top"
    /\ pc # "train" => net' = net
    /\ (pc' = "top" /\ tgt_net' # -1) =>
          net' - tgt_net' = (frame_idx' % SYNC_TARGET_FRAMES) + 1

\* An iteration that follows a sync step goes on to its gradient update.
C10_UpdateInEveryIteration ==
    (pc = "episode" /\ tgt_net # -1) => pc' = "gate"

\* C10 as amended: the target network's parameters change only by a copy of
\* the online network's on a sync step (buffer length >= REPLAY_START_SIZE
\* and frame_idx a multiple of SYNC_TARGET_FRAMES); right after the copy,
\* before that iteration's gradient update, they equal the online
\* parameters; they stay as they are through the following iterations up to
\* the next sync step, and every one of those iterations that does not exit
\* the loop applies one gradient update to the online network.
C10_TargetSync == [][C10_Step]_vars

\* C10 as claimed: the same, with a gradient update on each of the
\* iterations that follow a sync step, the exiting one included.
C10_AsClaimed == [][C10_Step /\ C10_UpdateInEveryIteration]_vars

\* The second sync step, right after the copy: the target parameters, which
\* were those of the first sync through frame 3, are the online ones after
\* two gradient updates.
C10_Witness ==
    /\ pc = "train"
    /\ frame_idx = 2 * SYNC_TARGET_FRAMES
    /\ net = SYNC_TARGET_FRAMES
    /\ tgt_net = net

\* The calls of an iteration that train: the target sync, the sample, the
\* loss and the optimizer step.
TrainingCalls == {"sync", "sample", "calc_loss", "backward", "step"}

CallsOf(evs) == {evs[i] : i \in 1 .. Len(evs)}

\* C11: an iteration in which the buffer holds fewer than REPLAY_START_SIZE
\* records goes from the gate straight to the next frame: no target sync,
\* sample, loss or gradient update, the two networks as they were; so every
\* sample the loop makes asks for at most as many records as the buffer
\* holds, and returns.
C11_NoTrainingBelowStart ==
    [][/\ (pc = "gate" /\ Len(buffer) < REPLAY_START_SIZE) => pc' = "top"
       /\ Len(buffer') < REPLAY_START_SIZE =>
              /\ pc' \notin {"sync", "train", "crashed"}
              /\ CallsOf(events') \cap TrainingCalls = {}
              /\ net' = net
              /\ tgt_net' = tgt_net
              /\ sampleRet' = NoSample
       /\ pc = "train" =>
              /\ BATCH_SIZE <= Len(buffer)
              /\ sampleRet'.status = "ok"
              /\ sampleRet'.batch_size = BATCH_SIZE]_vars

\* The first iteration is over: one record in the buffer, below
\* REPLAY_START_SIZE, nothing but the environment step done.
C11_Witness ==
    /\ pc = "top"
    /\ frame_idx = 1
    /\ Len(buffer) = 1
    /\ Len(buffer) < REPLAY_START_SIZE
    /\ events = <<"play_step">>
    /\ net = 0
    /\ tgt_net = -1

\* The trailing mean at the i-th episode end of the rewards q.
MeanAt(q, i) == MeanOfLast(SubSeq(q, 1, i), MEAN_WINDOW)

FracEqual(a, b) == a.num * b.den = b.num * a.den

\* The trailing mean at the last episode end of q exceeds the one at every
\* earlier episode end (so also: q holds the first completed episode).
StrictlyBest(q) ==
    \A i \in 1 .. Len(q) - 1 : FracLess(MeanAt(q, i), MeanAt(q, Len(q)))

\* C12: at an episode end the file <env>-best.dat is written exactly when
\* the trailing mean exceeds the trailing mean of every earlier episode end
\* (or the episode is the first one), and best_mean_reward is then the
\* highest trailing mean seen so far.
C12_BestFileAtNewBest ==
    [][(pc = "episode" /\ EpisodeEnded(reward)) =>
          /\ ("save" \in CallsOf(events')) <=> StrictlyBest(total_rewards')
          /\ best_mean_reward' # None
          /\ \E i \in 1 .. Len(total_rewards') :
                /\ FracEqual(best_mean_reward'[1], MeanAt(total_rewards', i))
                /\ \A j \in 1 .. Len(total_rewards') :
                      ~FracLess(MeanAt(total_rewards', i),
                                MeanAt(total_rewards', j))]_vars

\* What the loop does instead: the assignment of line 145 sits under
\* 'if best_mean_reward is not None', so best_mean_reward stays None and
\* every episode end writes the file.
C12_FileWrittenAtEveryEpisodeEnd ==
    /\ best_mean_reward = None
    /\ (pc = "gate" /\ EpisodeEnded(reward)) =>
          /\ "save" \in CallsOf(events)
          /\ saved = Some(net)

\* The second episode ended with a lower trailing mean than the first, and
\* the file was written again.
C12_WitnessOverwritten ==
    /\ pc = "gate"
    /\ total_rewards = <<1, 0>>
    /\ "save" \in CallsOf(events)

\* The last (at most MEAN_WINDOW) entries of q.
Trailing(q) ==
    [i \in 1 .. Min(Len(q), MEAN_WINDOW) |->
        q[Len(q) - Min(Len(q), MEAN_WINDOW) + i]]

\* The mean of the entries of q exceeds MEAN_REWARD_BOUND.
ExceedsBound(q) ==
    /\ q # <<>>
    /\ SumSeq(q) * MEAN_REWARD_BOUND_DEN > MEAN_REWARD_BOUND_NUM * Len(q)

\* C13: the loop exits in an iteration exactly when an episode completed in
\* it and the mean of the last (at most MEAN_WINDOW) episode returns, the
\* new one included, exceeds the bound; so it exits at the first such
\* iteration; the exiting iteration samples nothing and applies no gradient
\* update; once out, the loop does nothing more, and there is no other way
\* out.
C13_ExitWhenSolved ==
    [][/\ pc = "episode" =>
              (pc' = "done" <=>
                  /\ reward # None
                  /\ ExceedsBound(Trailing(Append(total_rewards, reward[1]))))
       /\ pc # "episode" => pc' \notin {"done", "crashed"}
       /\ pc' = "done" =>
              /\ CallsOf(events') \cap TrainingCalls = {}
              /\ net' = net
              /\ tgt_net' = tgt_net
              /\ sampleRet' = NoSample
       /\ pc # "done"]_vars

\* The loop has left at the end of the second episode, the first iteration
\* with a trailing mean above the bound: returns 1 and 3, means 1 and 2.
C13_Witness ==
    /\ pc = "done"
    /\ total_rewards = <<1, 3>>
    /\ frame_idx = 4
    /\ events = <<"play_step", "save">>
    /\ best_mean_reward = None

\* The environment step, the sample, the loss and the optimizer step among
\* the calls evs, in the order they were made.
IsCoreCall(e) == e \in {"play_step", "sample", "calc_loss", "step"}

CoreCalls(evs) == SelectSeq(evs, IsCoreCall)

\* C14: an iteration makes one play_step call first, which appends one
\* record to the buffer, and then either nothing more or one sample, one
\* loss computation and one optimizer step, in that order; the sample
\* returns a batch and the online parameters change by that one step, and
\* nothing else in the iteration appends, samples or updates.
C14_IterationOrder ==
    [][/\ pc = "top" =>
              /\ events' = <<"play_step">>
              /\ playRet'.called
              /\ Len(buffer') = Min(Len(buffer) + 1, capacity)
              /\ buffer'[Len(buffer')] =
                    Experience(playRet'.prev_state, playRet'.action,
                               playRet'.reward, playRet'.done,
                               playRet'.new_state)
       /\ pc # "top" => buffer' = buffer
       /\ pc = "train" =>
              /\ sampleRet'.status = "ok"
              /\ net' = net + 1
       /\ pc # "train" =>
              /\ net' = net
              /\ sampleRet' = NoSample
              /\ CoreCalls(events') =
                    IF pc = "top" THEN <<"play_step">> ELSE CoreCalls(events)
       /\ pc' \in {"top", "done"} =>
              CoreCalls(events') \in
                  {<<"play_step">>,
                   <<"play_step", "sample", "calc_loss", "step">>}]_vars

\* The second iteration is over: the environment step, then the sync and
\* one sample, loss and optimizer step.
C14_Witness ==
    /\ pc = "top"
    /\ frame_idx = 2
    /\ Len(buffer) = 2
    /\ events = <<"play_step", "sync", "zero_grad", "sample", "calc_loss",
                  "backward", "step">>
    /\ sampleRet.status = "ok"
    /\ net = 1

\* C15: a sample call that asks for more records than the buffer holds
\* raises instead of returning a batch, with no array built, and leaves the
\* buffer, its records and its length, as it was.
C15_OversizedSampleFails ==
    [][(sampleRet' # NoSample /\ sampleRet'.batch_size > Len(buffer)) =>
          /\ sampleRet'.status = "ValueError"
          /\ sampleRet'.indices = <<>>
          /\ sampleRet'.states = <<>>
          /\ sampleRet'.actions = <<>>
          /\ sampleRet'.rewards = <<>>
          /\ sampleRet'.dones = <<>>
          /\ sampleRet'.next_states = <<>>
          /\ buffer' = buffer
          /\ Len(buffer') = Len(buffer)]_vars

\* sample(2) has raised on a buffer of capacity one that holds its second
\* record.
C15_Witness ==
    /\ sampleRet.status = "ValueError"
    /\ sampleRet.batch_size = 2
    /\ capacity = 1
    /\ Len(buffer) = 1
    /\ Len(history) = 2

\* C16: no loss is computed against the target network's own initial
\* parameters: whenever the loop stands before its sample and loss the
\* target parameters are a copy of online ones, and the first iteration that
\* gets there has just made that copy.
C16_TargetSyncedBeforeLoss ==
    /\ pc = "train" =>
          /\ tgt_net # -1
          /\ net = 0 =>
                /\ "sync" \in CallsOf(events)
                /\ tgt_net = net
    /\ "calc_loss" \in CallsOf(events) => tgt_net # -1

\* The first iteration past the gate, right before its sample and loss: the
\* target parameters are the online network's initial ones.
C16_Witness ==
    /\ pc = "train"
    /\ frame_idx = REPLAY_START_SIZE
    /\ net = 0
    /\ tgt_net = 0
    /\ events = <<"play_step", "sync">>

\* The gradient updates applied by the end of iteration f of a loop that
\* goes on: one in every iteration from REPLAY_START_SIZE on.
UpdatesThrough(f) ==
    IF f < REPLAY_START_SIZE THEN 0 ELSE f - REPLAY_START_SIZE + 1

\* C17: at the gate the buffer holds min(frame_idx, REPLAY_SIZE) records;
\* the first gradient update is the one of iteration REPLAY_START_SIZE and
\* every later iteration that does not leave the loop applies one more.
C17_BufferLengthAtGate ==
    /\ pc = "gate" => Len(buffer) = Min(frame_idx, REPLAY_SIZE)
    /\ pc \in {"gate", "sync", "train"} =>
          /\ frame_idx >= 1
          /\ net = UpdatesThrough(frame_idx - 1)
    /\ pc = "sync" => frame_idx >= REPLAY_START_SIZE
    /\ pc = "top" => net = UpdatesThrough(frame_idx)
    /\ pc = "done" => net = UpdatesThrough(frame_idx - 1)

\* The gate of an iteration in which the deque has already dropped records:
\* the buffer is at REPLAY_SIZE and two gradient updates were applied, at
\* frames REPLAY_START_SIZE and REPLAY_START_SIZE + 1.
C17_Witness ==
    /\ pc = "gate"
    /\ frame_idx = REPLAY_SIZE + 2
    /\ Len(buffer) = REPLAY_SIZE
    /\ net = 2

\* C18: the records in the buffer are chained: a record that follows one
\* with done = false starts in that record's new_state, and a record that
\* follows one with done = true starts in a reset observation.
C18_BufferIsChained ==
    \A i \in 1 .. Len(buffer) - 1 :
        IF buffer[i].done
        THEN buffer[i + 1].state \in ResetObs
        ELSE buffer[i + 1].state = buffer[i].new_state

\* Three steps into a buffer of two records: the first record is gone; the
\* second ended an episode in observation 1 and the third starts from the
\* reset observation and leads to observation 1.
C18_Witness ==
    /\ calls = 3
    /\ capacity = 2
    /\ Len(buffer) = 2
    /\ buffer[1].done
    /\ buffer[1].new_state = 1
    /\ buffer[2].state \in ResetObs
    /\ ~buffer[2].done
    /\ buffer[2].new_state = 1
    /\ state = 1

(***************************************************************************)
(* Claims about the epsilon schedule, checked under SpecEps.               *)
(***************************************************************************)
\* (EPSILON_START - EPSILON_FINAL) * EPSILON_DECAY_LAST_FRAME, in exact
\* arithmetic: (1 - 2/100) * 10**5.
EpsFloorFrame == ((100 - 2) * EPSILON_DECAY_LAST_FRAME_INT) \div 100

\* What holds of the epsilon of every frame: not above the one of the frame
\* before, at least EPSILON_FINAL, below EPSILON_START.
EpsilonStepBounds ==
    /\ frame_idx' >= 1
    /\ ~FloatLess(epsilon, epsilon')
    /\ ~FloatLess(epsilon', EPSILON_FINAL_FLOAT)
    /\ FloatLess(epsilon', EPSILON_START_FLOAT)

\* C19 as claimed: the epsilon of frame f never increases with f, is at
\* least EPSILON_FINAL and below EPSILON_START, and is EPSILON_FINAL at every
\* frame f >= (EPSILON_START - EPSILON_FINAL) * EPSILON_DECAY_LAST_FRAME.
C19_AsClaimed ==
    [][frame_idx' = frame_idx + 1 =>
          /\ EpsilonStepBounds
          /\ frame_idx' >= EpsFloorFrame => epsilon' = EPSILON_FINAL_FLOAT]_vars

\* C19 as amended: the same, with epsilon equal to EPSILON_FINAL at every
\* frame f > (EPSILON_START - EPSILON_FINAL) * EPSILON_DECAY_LAST_FRAME, and
\* above it at every frame up to and including that one.
C19_EpsilonSchedule ==
    [][frame_idx' = frame_idx + 1 =>
          /\ EpsilonStepBounds
          /\ frame_idx' > EpsFloorFrame => epsilon' = EPSILON_FINAL_FLOAT
          /\ frame_idx' <= EpsFloorFrame =>
                FloatLess(EPSILON_FINAL_FLOAT, epsilon')]_vars

\* The first frame past the floor frame: epsilon is EPSILON_FINAL, after
\* having been above it at the floor frame.
C19_Witness ==
    /\ frame_idx = EpsFloorFrame + 1
    /\ epsilon = EPSILON_FINAL_FLOAT
    /\ FloatLess(EPSILON_FINAL_FLOAT, EpsilonFloat(EpsFloorFrame))

\* The floor frame itself: 1.0 - 98000 / 10**5 is a float above 0.02.
C19_WitnessFloorFrame ==
    /\ frame_idx = EpsFloorFrame
    /\ FloatLess(EPSILON_FINAL_FLOAT, epsilon)

=============================================================================
